---- MODULE Spec2Model ----
(***************************************************************************)
(* Model of the Lua event bridge of Source/Core/Core/LuaInterface.{h,cpp}. *)
(*                                                                         *)
(* Threads: one host thread ("host": Init, Evaluate, Shutdown), producer   *)
(* threads (Lua::SignalEvent, Lua::SignalEventLazy, Lua::Evaluate) and the *)
(* Lua thread (LuaThread, and Wait / Dolphin_AddEventMask /                *)
(* Dolphin_RemoveEventMask called by the script it runs).                  *)
(*                                                                         *)
(* Every read or write of shared state (s_thread_running, s_event_queue,   *)
(* s_event_mask, the condition variable) is a step of its own, so that the *)
(* check-then-act sequences of the code interleave as they do at run time. *)
(***************************************************************************)
EXTENDS Integers, Sequences, FiniteSets, TLC

\* ------------------------------------------------------------------ bounds

\* Calls of a signal entry point each thread makes.
MaxSignals == 2
\* Calls of Init the host makes.
MaxInits == 2

\* --------------------------------------------------------- program constants

\* Event::ID<Stop>, Event::ID<Evaluate>, Event::ID<Frame>, Event::ID<None>.
StopID == 0
EvaluateID == 1
FrameID == 2
NoneID == 256
\* s_event_mask has MaskWords words of WordBits bits.
MaskWords == 8
WordBits == 32

\* ------------------------------------------------------------------- inputs

Producers == {"p1", "p2"}
Host == "host"
Threads == Producers \cup {Host}
\* Script texts carried by Evaluate events.
Scripts == {"a", "b"}
\* Event IDs the script passes to Dolphin_AddEventMask / Dolphin_RemoveEventMask.
MaskArgs == {StopID, FrameID}

\* Arguments the script gives the mask operations when every uint16_t is tried:
\* the first and last bit of a word, the first and last word, ID<None> and above.
MaskIDs == {0, 1, 2, 31, 32, 63, 224, 255, 256, 257, 65535}

\* ------------------------------------------------------------------- events

\* AnyEvent: the variant's alternative (by its ID), the payload of Evaluate, and
\* the thread that made it (bookkeeping only: the code never reads it).
MkStop(t) == [id |-> StopID, script |-> "", src |-> t]
MkEvaluate(s, t) == [id |-> EvaluateID, script |-> s, src |-> t]
MkFrame(t) == [id |-> FrameID, script |-> "", src |-> t]
\* A default-constructed AnyEvent holds std::monostate (Event::None).
NoneEvent == [id |-> NoneID, script |-> "", src |-> "none"]

AnyEventToID(event) == event.id

\* The events a producer may hand to a signal entry point.
ProducerEvents(t) == {MkFrame(t)} \cup {MkEvaluate(s, t) : s \in Scripts}

\* The value of a const char * that points at no string.
nullptr == "nullptr"
\* No call in progress; Wait has not returned yet in this run of the script.
NoCall == [via |-> "none", event |-> NoneEvent, masked |-> FALSE]
NoRet == -1

VARIABLES
  s_thread_running,         \* std::atomic<bool>
  s_event_queue,            \* Common::FifoQueue<AnyEvent>: pending events, head first
  s_current_event,          \* AnyEvent
  s_event_mask,             \* std::atomic<uint32_t>[8]
  Dolphin_Evaluate_Script,  \* const char *: nullptr or the text it points at
  s_event_done_mutex,       \* "free" or "lua" (its owner)
  lua_pc,                   \* position of the Lua thread; "none": s_lua_thread not joinable
  wait_ret,                 \* what the last Wait returned to the script
  wait_timed_out,           \* wait_for timed out during the current Wait call
  pc,                       \* position of each host / producer thread
  call,                     \* the signal call each thread is in
  nsignals,                 \* calls of a signal entry point made by each thread
  ninits,                   \* calls of Init made
  pushed,                   \* events pushed since the last Init, in the order pushed
  delivered,                \* events Wait returned since the last Init
  boot_failure,             \* "none", "alloc", "load", "call"
  reported                  \* PanicAlert / ERROR_LOG called since the last Init

vars == <<s_thread_running, s_event_queue, s_current_event, s_event_mask,
          Dolphin_Evaluate_Script, s_event_done_mutex, lua_pc, wait_ret,
          wait_timed_out, pc, call, nsignals, ninits, pushed, delivered,
          boot_failure, reported>>

\* ---------------------------------------------------------------- the mask

\* A mask word is the set of its bits that are 1 (bit b stands for 1 << b).
ZeroMask == [i \in 0 .. MaskWords - 1 |-> {}]

\* The loop "while (event >= 32) { i++; event -= 32; }": the word index i and
\* what is left of event, the bit number.
RECURSIVE WordOf(_)
WordOf(event) == IF event >= WordBits THEN 1 + WordOf(event - WordBits) ELSE 0
RECURSIVE BitOf(_)
BitOf(event) == IF event >= WordBits THEN BitOf(event - WordBits) ELSE event

\* The indices i at which a mask operation called with event accesses
\* s_event_mask[i].
MaskIndex(event) == IF event < NoneID THEN {WordOf(event)} ELSE {}

\* Dolphin_AddEventMask as it would be with "=" for "|=".
Dolphin_AddEventMaskStores(mask, event) ==
  IF event < NoneID
    THEN [mask EXCEPT ![WordOf(event)] = {BitOf(event)}]
    ELSE mask

\* s_event_mask[i] |= (1 << event)
Dolphin_AddEventMask(mask, event) ==
  IF event < NoneID
    THEN [mask EXCEPT ![WordOf(event)] = @ \cup {BitOf(event)}]
    ELSE mask

\* Dolphin_RemoveEventMask as it would be with "^=" for "&= ~".
Dolphin_RemoveEventMaskToggles(mask, event) ==
  IF event < NoneID
    THEN [mask EXCEPT ![WordOf(event)] =
            IF BitOf(event) \in @ THEN @ \ {BitOf(event)} ELSE @ \cup {BitOf(event)}]
    ELSE mask

\* s_event_mask[i] &= ~(1 << event)
Dolphin_RemoveEventMask(mask, event) ==
  IF event < NoneID
    THEN [mask EXCEPT ![WordOf(event)] = @ \ {BitOf(event)}]
    ELSE mask

\* return s_event_mask[i] & (1 << event)
TestEvent(mask, event) ==
  IF event < NoneID
    THEN BitOf(event) \in mask[WordOf(event)]
    ELSE FALSE

IsEventEnabledByID(event) == TestEvent(s_event_mask, event)

\* --------------------------------------------------------------- the queue

\* Common::FifoQueue (Common/FifoQueue.h): Push appends at the tail, Pop takes
\* the head, each as one step.
Push(q, event) == Append(q, event)
Empty(q) == q = <<>>
Front(q) == Head(q)
Popped(q) == Tail(q)
Clear(q) == <<>>

HasEvent == ~Empty(s_event_queue)
HasThreadExited == ~s_thread_running

\* ------------------------------------------------------------ event payload

\* UnboxEvent: an Evaluate event exports its script text.
UnboxEvent(event, ptr) == IF event.id = EvaluateID THEN event.script ELSE ptr

\* CleanupEvent as it would be without the reset of the exported pointer.
CleanupEventKeeps(event, ptr) == ptr

\* CleanupEvent: an Evaluate event withdraws the exported pointer.
CleanupEvent(event, ptr) == IF event.id = EvaluateID THEN nullptr ELSE ptr

\* ------------------------------------------------------------------- states

TypeOK ==
  /\ s_thread_running \in BOOLEAN
  /\ s_event_mask \in [0 .. MaskWords - 1 -> SUBSET (0 .. WordBits - 1)]
  /\ Dolphin_Evaluate_Script \in Scripts \cup {nullptr}
  /\ s_event_done_mutex \in {"free", "lua"}
  /\ lua_pc \in {"none", "start", "lock", "newstate", "loadstring", "pcall",
                  "script", "report", "w_pop", "w_pred", "w_block", "w_blocked",
                  "w_woken", "unwind", "guard", "finished"}
  /\ wait_ret \in {NoRet, StopID, EvaluateID, FrameID, NoneID}
  /\ wait_timed_out \in BOOLEAN
  /\ pc \in [Threads -> {"idle", "check", "push", "notify", "join", "return"}]
  /\ nsignals \in [Threads -> 0 .. MaxSignals]
  /\ ninits \in 0 .. MaxInits
  /\ boot_failure \in {"none", "alloc", "load", "call"}
  /\ reported \in BOOLEAN

\* The state before any call: the statics are zero-initialized.
Init0 ==
  /\ s_thread_running = FALSE
  /\ s_event_queue = <<>>
  /\ s_current_event = NoneEvent
  /\ s_event_mask = ZeroMask
  /\ Dolphin_Evaluate_Script = nullptr
  /\ s_event_done_mutex = "free"
  /\ lua_pc = "none"
  /\ wait_ret = NoRet
  /\ wait_timed_out = FALSE
  /\ pc = [t \in Threads |-> "idle"]
  /\ call = [t \in Threads |-> NoCall]
  /\ nsignals = [t \in Threads |-> 0]
  /\ ninits = 0
  /\ pushed = <<>>
  /\ delivered = <<>>
  /\ boot_failure = "none"
  /\ reported = FALSE

\* ---------------------------------------------------------------- the host

\* Init as it would be without the loop that stores 0 in every mask word.
InitKeepsMask ==
  /\ pc[Host] = "idle"
  /\ lua_pc = "none"
  /\ ninits < MaxInits
  /\ s_event_queue' = Clear(s_event_queue)
  /\ s_event_mask' = Dolphin_AddEventMask(
                       Dolphin_AddEventMask(s_event_mask, StopID), EvaluateID)
  /\ s_thread_running' = FALSE
  /\ lua_pc' = "start"
  /\ ninits' = ninits + 1
  /\ pushed' = <<>>
  /\ delivered' = <<>>
  /\ boot_failure' = "none"
  /\ reported' = FALSE
  /\ wait_ret' = NoRet
  /\ wait_timed_out' = FALSE
  /\ UNCHANGED <<s_current_event, Dolphin_Evaluate_Script, s_event_done_mutex,
                 pc, call, nsignals>>

\* Lua::Init.  The caller guards against a second start: assigning to a joinable
\* std::thread terminates the process.
Init ==
  /\ pc[Host] = "idle"
  /\ lua_pc = "none"
  /\ ninits < MaxInits
  /\ s_event_queue' = Clear(s_event_queue)
  /\ s_event_mask' = Dolphin_AddEventMask(
                       Dolphin_AddEventMask(ZeroMask, StopID), EvaluateID)
  /\ s_thread_running' = FALSE
  /\ lua_pc' = "start"
  /\ ninits' = ninits + 1
  /\ pushed' = <<>>
  /\ delivered' = <<>>
  /\ boot_failure' = "none"
  /\ reported' = FALSE
  /\ wait_ret' = NoRet
  /\ wait_timed_out' = FALSE
  /\ UNCHANGED <<s_current_event, Dolphin_Evaluate_Script, s_event_done_mutex,
                 pc, call, nsignals>>

\* Variables of the Lua thread that no other thread's step changes.
lua_private == <<s_current_event, Dolphin_Evaluate_Script, s_event_done_mutex,
                 wait_ret, wait_timed_out, delivered, boot_failure, reported>>

\* Detail::SignalEvent returns to its caller: Shutdown goes on to join.
Return(t) ==
  /\ pc' = [pc EXCEPT ![t] = IF call[t].via = "Shutdown" THEN "join" ELSE "idle"]
  /\ call' = [call EXCEPT ![t] = NoCall]

\* Shutdown as it would be without the test of joinable().
ShutdownUnguarded ==
  /\ pc[Host] = "idle"
  /\ pc' = [pc EXCEPT ![Host] = "check"]
  /\ call' = [call EXCEPT ![Host] =
                [via |-> "Shutdown", event |-> MkStop(Host),
                 masked |-> ~IsEventEnabledByID(StopID)]]
  /\ UNCHANGED <<s_thread_running, s_event_queue, s_event_mask, lua_pc, nsignals,
                 ninits, pushed, lua_private>>

\* Lua::Shutdown, up to the call of Detail::SignalEvent(Event::Stop()), or to
\* its return when s_lua_thread is not joinable.
Shutdown ==
  /\ pc[Host] = "idle"
  /\ IF lua_pc # "none"
       THEN /\ pc' = [pc EXCEPT ![Host] = "check"]
            /\ call' = [call EXCEPT ![Host] =
                          [via |-> "Shutdown", event |-> MkStop(Host),
                           masked |-> ~IsEventEnabledByID(StopID)]]
       ELSE /\ pc' = [pc EXCEPT ![Host] = "return"]
            /\ call' = call
  /\ UNCHANGED <<s_thread_running, s_event_queue, s_event_mask, lua_pc, nsignals,
                 ninits, pushed, lua_private>>

\* Shutdown returns, having found s_lua_thread not joinable.
ShutdownReturn ==
  /\ pc[Host] = "return"
  /\ pc' = [pc EXCEPT ![Host] = "idle"]
  /\ UNCHANGED <<s_thread_running, s_event_queue, s_event_mask, lua_pc, call,
                 nsignals, ninits, pushed, lua_private>>

\* s_lua_thread.join()
ShutdownJoin ==
  /\ pc[Host] = "join"
  /\ lua_pc = "finished"
  /\ lua_pc' = "none"
  /\ pc' = [pc EXCEPT ![Host] = "idle"]
  /\ UNCHANGED <<s_thread_running, s_event_queue, s_event_mask, call, nsignals,
                 ninits, pushed, lua_private>>

\* ------------------------------------------------------ signal entry points

\* Lua::SignalEvent(AnyEvent &&): straight to Detail::SignalEvent.
SignalEvent(t, event) ==
  /\ pc[t] = "idle"
  /\ nsignals[t] < MaxSignals
  /\ nsignals' = [nsignals EXCEPT ![t] = @ + 1]
  /\ pc' = [pc EXCEPT ![t] = "check"]
  /\ call' = [call EXCEPT ![t] =
                [via |-> "SignalEvent", event |-> event,
                 masked |-> ~IsEventEnabledByID(AnyEventToID(event))]]
  /\ UNCHANGED <<s_thread_running, s_event_queue, s_event_mask, lua_pc, ninits,
                 pushed, lua_private>>

\* Lua::SignalEventLazy<T>(makeEvent): the event is made and signaled only if
\* IsEventEnabled<T>().
SignalEventLazy(t, event, name) ==
  /\ pc[t] = "idle"
  /\ nsignals[t] < MaxSignals
  /\ nsignals' = [nsignals EXCEPT ![t] = @ + 1]
  /\ IF IsEventEnabledByID(AnyEventToID(event))
       THEN /\ pc' = [pc EXCEPT ![t] = "check"]
            /\ call' = [call EXCEPT ![t] =
                          [via |-> name, event |-> event, masked |-> FALSE]]
       ELSE UNCHANGED <<pc, call>>
  /\ UNCHANGED <<s_thread_running, s_event_queue, s_event_mask, lua_pc, ninits,
                 pushed, lua_private>>

\* Lua::Evaluate(script)
Evaluate(t, script) == SignalEventLazy(t, MkEvaluate(script, t), "Evaluate")

\* --------------------------------------------------- Detail::SignalEvent

\* The first line with a filter on the mask added to it.
SignalEventCheckMasked(t) ==
  /\ pc[t] = "check"
  /\ IF HasThreadExited \/ ~IsEventEnabledByID(AnyEventToID(call[t].event))
       THEN Return(t)
       ELSE /\ pc' = [pc EXCEPT ![t] = "push"]
            /\ call' = call
  /\ UNCHANGED <<s_thread_running, s_event_queue, s_event_mask, lua_pc, nsignals,
                 ninits, pushed, lua_private>>

\* if (HasThreadExited()) return;
SignalEventCheck(t) ==
  /\ pc[t] = "check"
  /\ IF HasThreadExited
       THEN Return(t)
       ELSE /\ pc' = [pc EXCEPT ![t] = "push"]
            /\ call' = call
  /\ UNCHANGED <<s_thread_running, s_event_queue, s_event_mask, lua_pc, nsignals,
                 ninits, pushed, lua_private>>

\* The push as a single slot would do it: an event that finds one pending is lost.
SignalEventPushSingleSlot(t) ==
  /\ pc[t] = "push"
  /\ s_event_queue' = IF Empty(s_event_queue)
                        THEN Push(s_event_queue, call[t].event)
                        ELSE s_event_queue
  /\ pushed' = Append(pushed, call[t].event)
  /\ pc' = [pc EXCEPT ![t] = "notify"]
  /\ UNCHANGED <<s_thread_running, s_event_mask, lua_pc, call, nsignals, ninits,
                 lua_private>>

\* The push as it would be if SignalEvent locked s_event_done_mutex around it:
\* the caller waits while the Lua thread owns the mutex.
SignalEventPushLocked(t) ==
  /\ pc[t] = "push"
  /\ s_event_done_mutex = "free"
  /\ s_event_queue' = Push(s_event_queue, call[t].event)
  /\ pushed' = Append(pushed, call[t].event)
  /\ pc' = [pc EXCEPT ![t] = "notify"]
  /\ UNCHANGED <<s_thread_running, s_event_mask, lua_pc, call, nsignals, ninits,
                 lua_private>>

\* s_event_queue.Push(std::move(event));
SignalEventPush(t) ==
  /\ pc[t] = "push"
  /\ s_event_queue' = Push(s_event_queue, call[t].event)
  /\ pushed' = Append(pushed, call[t].event)
  /\ pc' = [pc EXCEPT ![t] = "notify"]
  /\ UNCHANGED <<s_thread_running, s_event_mask, lua_pc, call, nsignals, ninits,
                 lua_private>>

\* s_event_set_cond.notify_one(): wakes the Lua thread if it is blocked in
\* wait_for, and is without effect otherwise.
SignalEventNotify(t) ==
  /\ pc[t] = "notify"
  /\ lua_pc' = IF lua_pc = "w_blocked" THEN "w_woken" ELSE lua_pc
  /\ Return(t)
  /\ UNCHANGED <<s_thread_running, s_event_queue, s_event_mask, nsignals, ninits,
                 pushed, lua_private>>

\* ------------------------------------------------------------ the Lua thread

\* Variables of the host and producer threads.
callers == <<pc, call, nsignals, ninits, pushed>>

\* s_thread_running.store(true);
LuaThreadStart ==
  /\ lua_pc = "start"
  /\ s_thread_running' = TRUE
  /\ lua_pc' = "lock"
  /\ UNCHANGED <<s_event_queue, s_event_mask, callers, lua_private>>

\* std::unique_lock<std::mutex> lock(s_event_done_mutex);
LuaThreadLock ==
  /\ lua_pc = "lock"
  /\ s_event_done_mutex = "free"
  /\ s_event_done_mutex' = "lua"
  /\ lua_pc' = "newstate"
  /\ UNCHANGED <<s_thread_running, s_event_queue, s_event_mask, callers,
                 s_current_event, Dolphin_Evaluate_Script, wait_ret,
                 wait_timed_out, delivered, boot_failure, reported>>

\* lua_State *L = luaL_newstate(); if (!L) return;
LuaNewState ==
  /\ lua_pc = "newstate"
  /\ \E L \in {"state", "NULL"} :
       IF L = "NULL"
         THEN lua_pc' = "unwind" /\ boot_failure' = "alloc"
         ELSE lua_pc' = "loadstring" /\ boot_failure' = boot_failure
  /\ UNCHANGED <<s_thread_running, s_event_queue, s_event_mask, callers,
                 s_current_event, Dolphin_Evaluate_Script, s_event_done_mutex,
                 wait_ret, wait_timed_out, delivered, reported>>

\* result = luaL_loadstring(L, boot_script);
LuaLoadString ==
  /\ lua_pc = "loadstring"
  /\ \E result \in {0, 1} :
       IF result = 0
         THEN lua_pc' = "pcall" /\ boot_failure' = boot_failure
         ELSE lua_pc' = "report" /\ boot_failure' = "load"
  /\ UNCHANGED <<s_thread_running, s_event_queue, s_event_mask, callers,
                 s_current_event, Dolphin_Evaluate_Script, s_event_done_mutex,
                 wait_ret, wait_timed_out, delivered, reported>>

\* result = lua_pcall(L, 2, 0, 0): the boot script requires the dolphin module
\* and calls its main, which either raises or enters its event loop.
LuaPCall ==
  /\ lua_pc = "pcall"
  /\ \E raises \in BOOLEAN :
       IF raises
         THEN lua_pc' = "report" /\ boot_failure' = "call"
         ELSE lua_pc' = "script" /\ boot_failure' = boot_failure
  /\ wait_ret' = NoRet
  /\ UNCHANGED <<s_thread_running, s_event_queue, s_event_mask, callers,
                 s_current_event, Dolphin_Evaluate_Script, s_event_done_mutex,
                 wait_timed_out, delivered, reported>>

\* if (result != 0) { PanicAlert(...); ERROR_LOG(...); lua_pop(L, -1); }
LuaReport ==
  /\ lua_pc = "report"
  /\ reported' = TRUE
  /\ lua_pc' = "unwind"
  /\ UNCHANGED <<s_thread_running, s_event_queue, s_event_mask, callers,
                 s_current_event, Dolphin_Evaluate_Script, s_event_done_mutex,
                 wait_ret, wait_timed_out, delivered, boot_failure>>

\* The script calls Dolphin_AddEventMask(event).
ScriptAddEventMask(event) ==
  /\ lua_pc = "script"
  /\ s_event_mask' = Dolphin_AddEventMask(s_event_mask, event)
  /\ UNCHANGED <<s_thread_running, s_event_queue, lua_pc, callers, lua_private>>

\* The script calls Dolphin_RemoveEventMask(event).
ScriptRemoveEventMask(event) ==
  /\ lua_pc = "script"
  /\ s_event_mask' = Dolphin_RemoveEventMask(s_event_mask, event)
  /\ UNCHANGED <<s_thread_running, s_event_queue, lua_pc, callers, lua_private>>

\* The event loop of main leaves when Wait has returned Stop: lua_pcall returns 0.
ScriptReturn ==
  /\ lua_pc = "script"
  /\ wait_ret = StopID
  /\ lua_pc' = "unwind"
  /\ UNCHANGED <<s_thread_running, s_event_queue, s_event_mask, callers,
                 lua_private>>

\* The event loop of main calls Wait(timeout_ms).  Wait adopts the mutex and
\* calls CleanupEvent(s_current_event).
WaitEnter ==
  /\ lua_pc = "script"
  /\ wait_ret # StopID
  /\ Dolphin_Evaluate_Script' =
       CleanupEvent(s_current_event, Dolphin_Evaluate_Script)
  /\ wait_timed_out' = FALSE
  /\ lua_pc' = "w_pop"
  /\ UNCHANGED <<s_thread_running, s_event_queue, s_event_mask, callers,
                 s_current_event, s_event_done_mutex, wait_ret, delivered,
                 boot_failure, reported>>

\* The loop of Wait as it would be if it went on popping while events are
\* pending and returned the last one.
WaitPopDrains ==
  /\ lua_pc = "w_pop"
  /\ IF HasEvent
       THEN /\ s_current_event' = Front(s_event_queue)
            /\ s_event_queue' = Popped(s_event_queue)
            /\ IF Empty(Popped(s_event_queue))
                 THEN /\ Dolphin_Evaluate_Script' =
                           UnboxEvent(Front(s_event_queue), Dolphin_Evaluate_Script)
                      /\ wait_ret' = AnyEventToID(Front(s_event_queue))
                      /\ delivered' = Append(delivered, Front(s_event_queue))
                      /\ lua_pc' = "script"
                 ELSE UNCHANGED <<Dolphin_Evaluate_Script, wait_ret, delivered,
                                  lua_pc>>
       ELSE /\ lua_pc' = "w_pred"
            /\ UNCHANGED <<s_current_event, s_event_queue,
                           Dolphin_Evaluate_Script, wait_ret, delivered>>
  /\ UNCHANGED <<s_thread_running, s_event_mask, callers, s_event_done_mutex,
                 wait_timed_out, boot_failure, reported>>

\* Wait as it would be without lock.release(): the unique_lock that adopted
\* the mutex unlocks it when Wait returns.
WaitPopUnlocks ==
  /\ lua_pc = "w_pop"
  /\ IF HasEvent
       THEN /\ s_current_event' = Front(s_event_queue)
            /\ s_event_queue' = Popped(s_event_queue)
            /\ Dolphin_Evaluate_Script' =
                 UnboxEvent(Front(s_event_queue), Dolphin_Evaluate_Script)
            /\ wait_ret' = AnyEventToID(Front(s_event_queue))
            /\ delivered' = Append(delivered, Front(s_event_queue))
            /\ lua_pc' = "script"
       ELSE /\ lua_pc' = "w_pred"
            /\ UNCHANGED <<s_current_event, s_event_queue,
                           Dolphin_Evaluate_Script, wait_ret, delivered>>
  /\ s_event_done_mutex' = IF HasEvent THEN "free" ELSE s_event_done_mutex
  /\ UNCHANGED <<s_thread_running, s_event_mask, callers, wait_timed_out,
                 boot_failure, reported>>

\* while (!s_event_queue.Pop(s_current_event)) ...; on success
\* UnboxEvent(s_current_event); lock.release(); return AnyEventToID(s_current_event);
WaitPop ==
  /\ lua_pc = "w_pop"
  /\ IF HasEvent
       THEN /\ s_current_event' = Front(s_event_queue)
            /\ s_event_queue' = Popped(s_event_queue)
            /\ Dolphin_Evaluate_Script' =
                 UnboxEvent(Front(s_event_queue), Dolphin_Evaluate_Script)
            /\ wait_ret' = AnyEventToID(Front(s_event_queue))
            /\ delivered' = Append(delivered, Front(s_event_queue))
            /\ lua_pc' = "script"
       ELSE /\ lua_pc' = "w_pred"
            /\ UNCHANGED <<s_current_event, s_event_queue,
                           Dolphin_Evaluate_Script, wait_ret, delivered>>
  /\ UNCHANGED <<s_thread_running, s_event_mask, callers, s_event_done_mutex,
                 wait_timed_out, boot_failure, reported>>

\* wait_for(lock, timeout, &HasEvent) tests its predicate with the mutex held:
\* true, it returns; false, it goes on to block.
WaitForPred ==
  /\ lua_pc = "w_pred"
  /\ lua_pc' = IF HasEvent THEN "w_pop" ELSE "w_block"
  /\ UNCHANGED <<s_thread_running, s_event_queue, s_event_mask, callers,
                 lua_private>>

\* wait_for releases the mutex and blocks on s_event_set_cond.
WaitForBlock ==
  /\ lua_pc = "w_block"
  /\ s_event_done_mutex' = "free"
  /\ lua_pc' = "w_blocked"
  /\ UNCHANGED <<s_thread_running, s_event_queue, s_event_mask, callers,
                 s_current_event, Dolphin_Evaluate_Script, wait_ret,
                 wait_timed_out, delivered, boot_failure, reported>>

\* timeout_ms elapses: wait_for locks the mutex again and returns what its
\* predicate says, which Wait ignores: it goes back to Pop.
WaitForTimeout ==
  /\ lua_pc = "w_blocked"
  /\ s_event_done_mutex = "free"
  /\ s_event_done_mutex' = "lua"
  /\ wait_timed_out' = TRUE
  /\ lua_pc' = "w_pop"
  /\ UNCHANGED <<s_thread_running, s_event_queue, s_event_mask, callers,
                 s_current_event, Dolphin_Evaluate_Script, wait_ret, delivered,
                 boot_failure, reported>>

\* Woken by notify_one: wait_for locks the mutex again and tests its predicate.
WaitForWake ==
  /\ lua_pc = "w_woken"
  /\ s_event_done_mutex = "free"
  /\ s_event_done_mutex' = "lua"
  /\ lua_pc' = "w_pred"
  /\ UNCHANGED <<s_thread_running, s_event_queue, s_event_mask, callers,
                 s_current_event, Dolphin_Evaluate_Script, wait_ret,
                 wait_timed_out, delivered, boot_failure, reported>>

\* LuaThread returns: lua_state_guard closes the state (if any) and the
\* unique_lock unlocks s_event_done_mutex.
LuaUnwind ==
  /\ lua_pc = "unwind"
  /\ s_event_done_mutex' = "free"
  /\ lua_pc' = "guard"
  /\ UNCHANGED <<s_thread_running, s_event_queue, s_event_mask, callers,
                 s_current_event, Dolphin_Evaluate_Script, wait_ret,
                 wait_timed_out, delivered, boot_failure, reported>>

\* running_guard: s_thread_running.store(false); the thread function is over.
LuaRunningGuard ==
  /\ lua_pc = "guard"
  /\ s_thread_running' = FALSE
  /\ lua_pc' = "finished"
  /\ UNCHANGED <<s_event_queue, s_event_mask, callers, lua_private>>

\* ------------------------------------------------------------ specifications

LuaBoot ==
  \/ LuaThreadStart
  \/ LuaThreadLock
  \/ LuaNewState
  \/ LuaLoadString
  \/ LuaPCall
  \/ LuaReport

LuaScript ==
  \/ \E event \in MaskArgs : ScriptAddEventMask(event)
  \/ \E event \in MaskArgs : ScriptRemoveEventMask(event)
  \/ WaitEnter
  \/ ScriptReturn

LuaWait ==
  \/ WaitPop
  \/ WaitForPred
  \/ WaitForBlock
  \/ WaitForTimeout
  \/ WaitForWake

LuaExit ==
  \/ LuaUnwind
  \/ LuaRunningGuard

LuaThread == LuaBoot \/ LuaScript \/ LuaWait \/ LuaExit

\* The steps of Detail::SignalEvent, whoever called it.
DetailSignalEvent ==
  \E t \in Threads :
    \/ SignalEventCheck(t)
    \/ SignalEventPush(t)
    \/ SignalEventNotify(t)

\* A producer thread calls one of the entry points of LuaInterface.h.
Producer(t) ==
  \/ \E event \in ProducerEvents(t) : SignalEvent(t, event)
  \/ SignalEventLazy(t, MkFrame(t), "SignalEventLazy")
  \/ \E script \in Scripts : Evaluate(t, script)

\* The host, one producer thread and the Lua thread.
Next ==
  \/ Init
  \/ Shutdown
  \/ ShutdownReturn
  \/ ShutdownJoin
  \/ Producer("p1")
  \/ DetailSignalEvent
  \/ LuaThread

Spec == Init0 /\ [][Next]_vars

\* The k-th script of a producer that submits distinct scripts in turn.
PlannedScript(k) == IF k % 2 = 1 THEN "a" ELSE "b"

\* A producer thread submits its next script with Lua::Evaluate.
PlannedEvaluate(t) == Evaluate(t, PlannedScript(nsignals[t] + 1))

\* The script of the Lua thread when it leaves the mask as Init set it.
LuaScriptLoop == WaitEnter \/ ScriptReturn

\* One run of the bridge with every producer thread submitting its scripts.
ConcurrentNext ==
  \/ ninits = 0 /\ Init
  \/ Shutdown
  \/ ShutdownReturn
  \/ ShutdownJoin
  \/ \E t \in Producers : PlannedEvaluate(t)
  \/ DetailSignalEvent
  \/ LuaBoot
  \/ LuaScriptLoop
  \/ LuaWait
  \/ LuaExit

ConcurrentSpec == Init0 /\ [][ConcurrentNext]_vars

\* The script of the Lua thread when it only sets and clears mask bits.
LuaScriptMask ==
  \/ \E event \in MaskIDs : ScriptAddEventMask(event)
  \/ \E event \in MaskIDs : ScriptRemoveEventMask(event)

\* One start of the bridge, with a script that works on the mask.
MaskNext ==
  \/ Init
  \/ LuaBoot
  \/ LuaScriptMask
  \/ LuaExit

MaskSpec == Init0 /\ [][MaskNext]_vars

\* The scenario Init(); Evaluate(s); Shutdown() of one host thread.
ScenarioNext ==
  \/ ninits = 0 /\ Init
  \/ ninits = 1 /\ nsignals[Host] = 0 /\ (\E script \in Scripts : Evaluate(Host, script))
  \/ nsignals[Host] = 1 /\ lua_pc # "none" /\ Shutdown
  \/ ShutdownJoin
  \/ DetailSignalEvent
  \/ LuaBoot
  \/ LuaScriptLoop
  \/ LuaWait
  \/ LuaExit

ScenarioSpec == Init0 /\ [][ScenarioNext]_vars

\* One run of the bridge: the host, one producer thread that submits scripts
\* and the Lua thread.
LiveNext ==
  \/ ninits = 0 /\ Init
  \/ Shutdown
  \/ ShutdownReturn
  \/ ShutdownJoin
  \/ PlannedEvaluate("p1")
  \/ DetailSignalEvent
  \/ LuaThread

\* Every thread that can take a step of the code it is in eventually takes it,
\* and a timeout that is running eventually elapses.  Nothing obliges the host
\* or a producer to make a call, nor the script to change the mask.
Fairness ==
  /\ \A t \in Threads :
       WF_vars(SignalEventCheck(t) \/ SignalEventPush(t) \/ SignalEventNotify(t))
  /\ WF_vars(ShutdownJoin)
  /\ WF_vars(ShutdownReturn)
  /\ WF_vars(LuaBoot)
  /\ WF_vars(WaitEnter)
  /\ WF_vars(ScriptReturn)
  /\ WF_vars(LuaWait)
  /\ WF_vars(LuaExit)

LiveSpec == Init0 /\ [][LiveNext]_vars /\ Fairness

\* ------------------------------------------------------------------ claims

\* The events of thread t in a sequence of events, in their order.
Project(events, t) == SelectSeq(events, LAMBDA e : e.src = t)

\* What the Lua thread has been and will be given: the events Wait returned
\* followed by the pending ones.
Observed == delivered \o s_event_queue

Last(events) == events[Len(events)]

\* Wait has returned Stop.
StopDelivered == delivered # <<>> /\ AnyEventToID(Last(delivered)) = StopID

\* C1: the events the single producer thread of Spec pushed while the Lua
\* thread was running are returned by the successive Wait calls in the order
\* signaled: what Wait has returned, followed by what is pending, is (leaving
\* out the Stop of Shutdown) the sequence of the producer's pushes.
C1_FifoSingleProducer ==
  SelectSeq(Observed, LAMBDA e : e.src # Host) = Project(pushed, "p1")

\* Two different events of the producer have been returned by Wait, in order.
C1_Witness ==
  /\ Len(delivered) = 2
  /\ delivered = Project(pushed, "p1")
  /\ AnyEventToID(delivered[1]) = FrameID
  /\ AnyEventToID(delivered[2]) = EvaluateID

\* The number of events of a sequence that the threads of a set made.
CountFrom(events, threads) == Len(SelectSeq(events, LAMBDA e : e.src \in threads))

\* C2: with several producer threads submitting concurrently (ConcurrentSpec),
\* no pushed event is lost and none is duplicated (the events returned by Wait
\* and the pending ones are as many as the pushes, producer by producer), and
\* the events of each producer are returned in that producer's order.
C2_ConcurrentProducers ==
  /\ Len(Observed) = Len(pushed)
  /\ \A t \in Threads : Project(Observed, t) = Project(pushed, t)

\* Each of the N producers had M events pushed, Wait returned all N*M of
\* them, and the events of different producers alternate in what it returned.
C2_Witness ==
  /\ \A t \in Producers : Len(Project(pushed, t)) = MaxSignals
  /\ CountFrom(delivered, Producers) = MaxSignals * Cardinality(Producers)
  /\ Len(delivered) >= 3
  /\ delivered[1].src # delivered[2].src
  /\ delivered[2].src # delivered[3].src

\* C3: a call of a signal entry point with an event (other than Stop) whose
\* mask bit is clear at the call never gets to enqueue the event and to
\* notify the condition variable.
C3_DisabledNeverEnqueued ==
  \A t \in Threads :
    pc[t] = "notify" =>
      (AnyEventToID(call[t].event) = StopID \/ ~call[t].masked)

\* C4: a Wait call whose timeout has elapsed, with the queue empty, has
\* returned (the None sentinel): it is not waiting for an event again.
C4_TimeoutReturnsNone ==
  (wait_timed_out /\ Empty(s_event_queue)) =>
    lua_pc \notin {"w_pred", "w_block", "w_blocked"}

\* C5: every Shutdown call made after Init returns: the host does not stay in
\* Shutdown (in its SignalEvent or its join) forever.
C5_ShutdownCompletes == (pc[Host] # "idle") ~> (pc[Host] = "idle")

\* The scenario is over: Init, Evaluate and Shutdown have returned.
ScenarioDone ==
  ninits = 1 /\ nsignals[Host] = 1 /\ pc[Host] = "idle" /\ lua_pc = "none"

\* C6: when the scenario Init(); Evaluate(s); Shutdown() is over (and the boot
\* of the Lua thread did not fail), Wait has returned the Evaluate event and
\* then Stop.
C6_ScenarioEvaluateThenStop ==
  (ScenarioDone /\ boot_failure = "none") =>
    /\ Len(delivered) = 2
    /\ AnyEventToID(delivered[1]) = EvaluateID
    /\ AnyEventToID(delivered[2]) = StopID

\* C7: once Init has been called, Stop is enabled in the mask.
C7_StopAlwaysEnabled == ninits > 0 => IsEventEnabledByID(StopID)

\* C8: the SignalEvent of Shutdown that finds the Lua thread running goes on
\* to push Stop whatever the mask says; once it is about to push, Wait
\* eventually returns Stop, unless the boot of the Lua thread failed (it then
\* never calls Wait); and when Wait returns Stop it has returned every event
\* pushed before it.
C8_StopReachesConsumer ==
  /\ [][(pc[Host] = "check" /\ s_thread_running /\ pc'[Host] # "check")
          => pc'[Host] = "push"]_vars
  /\ (pc[Host] = "push") ~> (StopDelivered \/ boot_failure # "none")
  /\ [](StopDelivered => delivered = SubSeq(pushed, 1, Len(delivered)))

\* Wait has returned Stop, after an event pushed before it, with the Stop bit
\* of the mask clear.
C8_Witness ==
  /\ StopDelivered
  /\ Len(delivered) >= 2
  /\ ~IsEventEnabledByID(StopID)

\* C9: whenever the script runs after a return of Wait, the exported
\* Dolphin_Evaluate_Script is non-null exactly when the returned event is
\* Evaluate, and is then the script text of the event just returned, never
\* that of an earlier one.
C9_PayloadIsolation ==
  (lua_pc = "script" /\ wait_ret # NoRet) =>
    /\ delivered # <<>>
    /\ wait_ret = AnyEventToID(Last(delivered))
    /\ (Dolphin_Evaluate_Script # nullptr) <=> (wait_ret = EvaluateID)
    /\ wait_ret = EvaluateID => Dolphin_Evaluate_Script = Last(delivered).script

\* Wait has returned an Evaluate event and then a Frame event: the script
\* text of the first is no longer exported.
C9_Witness ==
  /\ lua_pc = "script"
  /\ Len(delivered) = 2
  /\ AnyEventToID(delivered[1]) = EvaluateID
  /\ AnyEventToID(delivered[2]) = FrameID
  /\ Dolphin_Evaluate_Script = nullptr

\* C10: after a boot failure the Lua thread is over with the failure reported,
\* s_thread_running false and s_event_done_mutex released.
C10_BootFailureHandled ==
  (lua_pc = "finished" /\ boot_failure # "none") =>
    /\ reported
    /\ ~s_thread_running
    /\ s_event_done_mutex = "free"

\* C11: a Shutdown call that finds s_lua_thread not joinable goes straight to
\* its return: it calls no SignalEvent (no Stop is pushed) and joins nothing,
\* and from the call to the return the host changes neither the queue, the
\* mask, s_thread_running nor the current event.
C11_ShutdownIdempotent ==
  /\ [][(pc[Host] = "idle" /\ lua_pc = "none" /\ pc'[Host] # "idle")
          => /\ pc'[Host] = "return"
             /\ UNCHANGED <<s_event_queue, s_event_mask, s_thread_running,
                            s_current_event, pushed, lua_pc>>]_vars
  /\ [][(pc[Host] = "return" /\ pc'[Host] # "return")
          => /\ pc'[Host] = "idle"
             /\ UNCHANGED <<s_event_queue, s_event_mask, s_thread_running,
                            s_current_event, pushed, lua_pc>>]_vars

\* Shutdown is returning without effect after an earlier Shutdown joined the
\* Lua thread, events being left in the queue.
C11_Witness ==
  /\ pc[Host] = "return"
  /\ ninits > 0
  /\ lua_pc = "none"
  /\ s_event_queue # <<>>
  /\ StopDelivered

\* C12: for every uint16_t k, Dolphin_AddEventMask(k) twice gives the mask it
\* gives once, and so does Dolphin_RemoveEventMask(k); for k >= 256 both leave
\* the eight words as they are and IsEventEnabledByID(k) is false; no mask
\* operation accesses s_event_mask at an index outside 0..7.
C12_MaskIdempotentInRange ==
  \A k \in MaskIDs :
    LET added == Dolphin_AddEventMask(s_event_mask, k)
        removed == Dolphin_RemoveEventMask(s_event_mask, k)
    IN /\ Dolphin_AddEventMask(added, k) = added
       /\ Dolphin_RemoveEventMask(removed, k) = removed
       /\ k >= NoneID => /\ added = s_event_mask
                         /\ removed = s_event_mask
                         /\ ~IsEventEnabledByID(k)
       /\ MaskIndex(k) \subseteq 0 .. MaskWords - 1
       /\ DOMAIN added = 0 .. MaskWords - 1
       /\ DOMAIN removed = 0 .. MaskWords - 1

\* The script has cleared Stop and set the last bit of the last word and the
\* first bit of the second word.
C12_Witness ==
  /\ lua_pc = "script"
  /\ ~IsEventEnabledByID(StopID)
  /\ IsEventEnabledByID(255)
  /\ IsEventEnabledByID(32)
  /\ ~IsEventEnabledByID(31)

C14_NoLostWakeup ==
  (lua_pc = "w_blocked" /\ HasEvent) => \E t \in Threads : pc[t] = "notify"

\* The Lua thread is running the script after a return of Wait: it owns
\* s_event_done_mutex and is outside Wait.
Processing ==
  /\ s_thread_running
  /\ lua_pc = "script"
  /\ s_event_done_mutex = "lua"
  /\ wait_ret # NoRet

\* While the Lua thread is processing, every step of a SignalEvent call in
\* progress can be taken: the caller waits for nothing.
C15_NeverWaits ==
  \A t \in Threads :
    Processing =>
      /\ pc[t] = "check" => ENABLED SignalEventCheck(t)
      /\ pc[t] = "push" => ENABLED SignalEventPush(t)
      /\ pc[t] = "notify" => ENABLED SignalEventNotify(t)

\* The push of a SignalEvent call made during processing puts its event at
\* the tail of the queue.
C15_Appended ==
  [][\A t \in Threads :
       (Processing /\ pc[t] = "push" /\ pc'[t] = "notify")
         => s_event_queue' = Append(s_event_queue, call[t].event)]_vars

\* Thread p1 is about to push its n-th event while the Lua thread is processing.
PushDuringProcessing(n) ==
  /\ Processing
  /\ pc["p1"] = "push"
  /\ Len(Project(pushed, "p1")) = n - 1

\* Wait has returned the n-th event of thread p1.
Returned(n) == Len(Project(delivered, "p1")) >= n

\* C15 as stated: a SignalEvent call made while the Lua thread is processing
\* a returned event never waits, its event is appended to the queue, and a
\* later Wait returns that event.
C15_SignalDuringProcessing ==
  /\ []C15_NeverWaits
  /\ C15_Appended
  /\ \A n \in 1 .. MaxSignals : PushDuringProcessing(n) ~> Returned(n)

\* C15 amended: a SignalEvent call made while the Lua thread is processing a
\* returned event never waits, its event is appended to the queue, and a later
\* Wait returns that event unless a Wait returns Stop first: the script then
\* leaves its loop and the event stays in the queue.
C15_SignalDuringProcessingUntilStop ==
  /\ []C15_NeverWaits
  /\ C15_Appended
  /\ \A n \in 1 .. MaxSignals :
       PushDuringProcessing(n) ~> (Returned(n) \/ StopDelivered)

\* Wait has returned, first another event and then the event that thread p1
\* pushed while the first was being processed; no Stop has been returned.
C15_Witness ==
  /\ Processing
  /\ Len(delivered) >= 2
  /\ Last(delivered).src = "p1"
  /\ ~StopDelivered
  /\ Returned(2)

\* Where the Lua thread is when it owns s_event_done_mutex: from the lock at
\* its start to its exit, but for the time it is blocked in wait_for.
LuaOwnsMutex ==
  lua_pc \in {"newstate", "loadstring", "pcall", "report", "script", "w_pop",
              "w_pred", "w_block", "unwind"}

\* C16: s_event_done_mutex is owned by the Lua thread exactly from the lock at
\* thread start to the thread's exit, except while it is blocked in the
\* wait_for of Wait; it is locked only at thread start and by wait_for on
\* waking, always when free; it is unlocked only by wait_for on blocking and
\* at the exit of the thread; entering Wait and returning from it leave it
\* owned.
C16_LockDiscipline ==
  /\ [](s_event_done_mutex = "lua" <=> LuaOwnsMutex)
  /\ [][(s_event_done_mutex = "free" /\ s_event_done_mutex' = "lua")
          => lua_pc \in {"lock", "w_blocked", "w_woken"}]_vars
  /\ [][(s_event_done_mutex = "lua" /\ s_event_done_mutex' = "free")
          => lua_pc \in {"w_block", "unwind"}]_vars
  /\ [][((lua_pc = "script" /\ lua_pc' = "w_pop")
            \/ (lua_pc = "w_pop" /\ lua_pc' = "script"))
          => (s_event_done_mutex = "lua" /\ s_event_done_mutex' = "lua")]_vars

\* The Lua thread has unlocked the mutex on its way out, after Wait returned
\* two events, the last of them after blocking until the timeout.
C16_Witness ==
  /\ lua_pc = "guard"
  /\ s_event_done_mutex = "free"
  /\ Len(delivered) >= 2
  /\ wait_timed_out
  /\ StopDelivered

\* C17: no event is appended to the queue when the Lua thread is not running:
\* every step that lengthens the queue is taken with s_thread_running true.
C17_NoPushAfterExit ==
  [][Len(s_event_queue') > Len(s_event_queue) => s_thread_running]_vars

\* C18: for every k < 256, after Dolphin_AddEventMask(k) the test of k is
\* true and after Dolphin_RemoveEventMask(k) it is false, and the test of
\* every other ID j is what it was; a mask operation of the script changes
\* neither the queue, nor the current event, nor s_thread_running.
C18_MaskFrame ==
  /\ [](\A k \in {id \in MaskIDs : id < NoneID} :
          LET added == Dolphin_AddEventMask(s_event_mask, k)
              removed == Dolphin_RemoveEventMask(s_event_mask, k)
          IN /\ TestEvent(added, k)
             /\ ~TestEvent(removed, k)
             /\ \A j \in (0 .. NoneID) \cup MaskIDs :
                  j # k => /\ TestEvent(added, j) = IsEventEnabledByID(j)
                           /\ TestEvent(removed, j) = IsEventEnabledByID(j))
  /\ [][(lua_pc = "script" /\ s_event_mask' # s_event_mask)
          => UNCHANGED <<s_event_queue, s_current_event, s_thread_running,
                         Dolphin_Evaluate_Script>>]_vars

\* The script has set bit 31 of the first word and bit 0 of the second and
\* has cleared Evaluate; Stop, next to it, is still set.
C18_Witness ==
  /\ lua_pc = "script"
  /\ IsEventEnabledByID(31)
  /\ IsEventEnabledByID(32)
  /\ ~IsEventEnabledByID(63)
  /\ IsEventEnabledByID(StopID)
  /\ ~IsEventEnabledByID(EvaluateID)
====
